---- MODULE Spec2Model ----
(***************************************************************************)
(* Model of backend/asteroids.py: the near-Earth-object pipeline.          *)
(*                                                                         *)
(*   feed fetch -> per record: small-body request, element check,          *)
(*   orbit sampling, property extraction -> two JSON artifacts             *)
(*                                                                         *)
(* Text is a sequence of one-character strings.  A JSON field that may be  *)
(* absent is a sequence of length 0 (absent) or 1 (present).  Floats are   *)
(* fixed-point integers with Scale units per 1; angles are integers with   *)
(* Turn units per revolution; lengths are in units of 1000 km.             *)
(***************************************************************************)
EXTENDS Integers, Sequences, FiniteSets, TLC

\* ---------------------------------------------------------------- bounds
MaxRecords == 2
MaxNameLen == 7

\* ------------------------------------------------------------- text
Space == " "
Tab == "\t"
LParen == "("
RParen == ")"
Whitespace == {Space, Tab}

RECURSIVE replace(_, _)
\* str.replace(old, '') for a one-character old: every occurrence goes.
replace(s, old) ==
  IF s = <<>> THEN <<>>
  ELSE IF Head(s) = old THEN replace(Tail(s), old)
       ELSE <<Head(s)>> \o replace(Tail(s), old)

\* s[n:]
SliceFrom(s, n) == IF Len(s) <= n THEN <<>> ELSE SubSeq(s, n + 1, Len(s))

PrefixLen == 6

sbdb_name_no_rparen(nameOpt) ==
  LET name == IF nameOpt = <<>> THEN <<>> ELSE nameOpt[1]
  IN SliceFrom(replace(replace(name, Space), LParen), PrefixLen)

\* line 54: asteroid.get('name', '').replace(' ', '').replace('(', '').replace(')', '')[6:]
sbdb_name(nameOpt) ==
  LET name == IF nameOpt = <<>> THEN <<>> ELSE nameOpt[1]
  IN SliceFrom(replace(replace(replace(name, Space), LParen), RParen), PrefixLen)

\* ------------------------------------------------------------- float()
Scale == 1000
Digits == {"0", "1", "2", "3", "4", "5", "6", "7", "8", "9"}
DigitVal(c) ==
  CASE c = "0" -> 0 [] c = "1" -> 1 [] c = "2" -> 2 [] c = "3" -> 3
    [] c = "4" -> 4 [] c = "5" -> 5 [] c = "6" -> 6 [] c = "7" -> 7
    [] c = "8" -> 8 [] c = "9" -> 9

Unsigned(s) == IF s # <<>> /\ Head(s) = "-" THEN Tail(s) ELSE s
DotAt(s) == IF \E k \in 1..Len(s) : s[k] = "."
            THEN CHOOSE k \in 1..Len(s) : s[k] = "." /\ \A j \in 1..(k - 1) : s[j] # "."
            ELSE Len(s) + 1

\* float(text) succeeds: the decimal numerals [-]digits[.digits] with at least one
\* digit.  (Exponents, 'inf', 'nan' and padding are outside the inputs modelled.)
FloatOk(s) ==
  LET u == Unsigned(s)
      d == DotAt(u)
  IN /\ \A k \in 1..Len(u) : k # d => u[k] \in Digits
     /\ \E k \in 1..Len(u) : u[k] \in Digits

RECURSIVE IntOf(_)
IntOf(s) == IF s = <<>> THEN 0 ELSE 10 * IntOf(SubSeq(s, 1, Len(s) - 1)) + DigitVal(s[Len(s)])

\* float(text) as a fixed-point value: three decimals are kept.
FloatVal(s) ==
  LET u == Unsigned(s)
      d == DotAt(u)
      ip == SubSeq(u, 1, d - 1)
      fr == SubSeq(u, d + 1, Len(u))
      f3 == SubSeq(fr \o <<"0", "0", "0">>, 1, 3)
      mag == IntOf(ip) * Scale + IntOf(f3)
  IN IF s # <<>> /\ Head(s) = "-" THEN 0 - mag ELSE mag

\* ------------------------------------------------------------- arithmetic
Abs(x) == IF x < 0 THEN 0 - x ELSE x
Sgn(x) == IF x < 0 THEN 0 - 1 ELSE 1
\* product and quotient of two fixed-point values, rounded toward zero
Mul(x, y) == Sgn(x) * Sgn(y) * ((Abs(x) * Abs(y)) \div Scale)
Quot(x, y) == Sgn(x) * Sgn(y) * (Abs(x) \div Abs(y))

num_points == 200
Turn == 4 * (num_points - 1)
Half == Turn \div 2
Quarter == Turn \div 4

\* np.sin on an angle in Turn units (Bhaskara's rational approximation on a half turn)
Sin(t) ==
  LET m == t % Turn
      h == IF m >= Half THEN m - Half ELSE m
      p == h * (Half - h)
      v == (16 * Scale * p) \div (5 * Half * Half - 4 * p)
  IN IF m >= Half THEN 0 - v ELSE v
\* np.cos
Cos(t) == Sin(t + Quarter)

\* ------------------------------------------------------------- orbit transform
\* 1 AU in length units (149597870.7 km), the factor of a.to(u.km)
AU_KM == 149598

\* np.linspace(start, stop, num) with one step less than the number of points
linspace_exclusive(start, stop, num) ==
  [k \in 1..num |-> start + ((k - 1) * (stop - start)) \div num]

\* line 79: np.linspace(start, stop, num), both endpoints included
linspace(start, stop, num) ==
  [k \in 1..num |-> IF k = num THEN stop
                    ELSE start + ((k - 1) * (stop - start)) \div (num - 1)]

\* inc.to(u.rad).value: degrees (fixed-point) to angle units
to_rad(deg) == Quot(deg * Turn, 360 * Scale)

z_of_cos_i(sin_w, cos_w, sin_i, cos_i, x_p, y_p) ==
  Mul(Mul(sin_w, cos_i), x_p) + Mul(Mul(cos_w, cos_i), y_p)

\* line 99
z_of(sin_w, cos_w, sin_i, cos_i, x_p, y_p) ==
  Mul(Mul(sin_w, sin_i), x_p) + Mul(Mul(cos_w, sin_i), y_p)

\* lines 87-100: one pass of the sampling loop; el holds the float() values of
\* a (AU), e, i, om, w (degrees)
point(el, ta) ==
  LET a_val == Mul(el.a, AU_KM)
      e_val == el.e
      i_val == to_rad(el.i)
      raan_val == to_rad(el.om)
      argp_val == to_rad(el.w)
      r == Quot(a_val * (Scale - Mul(e_val, e_val)), Scale + Mul(e_val, Cos(ta)))
      x_p == Mul(r, Cos(ta))
      y_p == Mul(r, Sin(ta))
      cos_O == Cos(raan_val)
      sin_O == Sin(raan_val)
      cos_w == Cos(argp_val)
      sin_w == Sin(argp_val)
      cos_i == Cos(i_val)
      sin_i == Sin(i_val)
      x == Mul(Mul(cos_O, cos_w) - Mul(Mul(sin_O, sin_w), cos_i), x_p)
           + Mul(0 - Mul(cos_O, sin_w) - Mul(Mul(sin_O, cos_w), cos_i), y_p)
      y == Mul(Mul(sin_O, cos_w) + Mul(Mul(cos_O, sin_w), cos_i), x_p)
           + Mul(0 - Mul(sin_O, sin_w) + Mul(Mul(cos_O, cos_w), cos_i), y_p)
      z == z_of(sin_w, cos_w, sin_i, cos_i, x_p, y_p)
  IN <<x, y, z>>

\* lines 78-100: coords
orbit_coords(el) ==
  LET true_anomalies == linspace(0, Turn, num_points)
  IN [k \in 1..num_points |-> point(el, true_anomalies[k])]

\* ------------------------------------------------------------- inputs
Some(v) == <<v>>
None == <<>>
Text(s) == [ty |-> "str", s |-> s]
JsonNull == [ty |-> "null", s |-> <<>>]

Unknown == <<"u", "n", "k", "n", "o", "w", "n">>
Name1 == <<"4", "3", "3", " ", "(", "2", "0", "0", "9", " ", "J", "R", ")">>
NullLiteral == <<"n", "u", "l", "l">>

\* estimated_diameter values of a feed record
DiameterOk == [ty |-> "object", kilometers |-> Some([estimated_diameter_max |-> Some(250)])]
DiameterNoKm == [ty |-> "object", kilometers |-> None]
DiameterNull == [ty |-> "null", kilometers |-> None]
\* close_approach_data entries
CadOk == [relative_velocity |-> Some([kilometers_per_second |-> Some(<<"1", "2", ".", "5">>)])]
CadNoVelocity == [relative_velocity |-> None]
CadBadVelocity == [relative_velocity |-> Some([kilometers_per_second |-> Some(<<"n", "/", "a">>)])]

Asteroid(n, d, c) == [name |-> n, estimated_diameter |-> d, close_approach_data |-> c]

\* The feed records the runs draw from: JSON objects whose name, when present, is text.
FeedRecords ==
  { Asteroid(Some(Name1), Some(DiameterOk), Some(<<CadOk>>)),
    Asteroid(Some(Name1), None, Some(<<>>)),
    Asteroid(Some(Unknown), Some(DiameterNoKm), Some(<<CadNoVelocity>>)),
    Asteroid(Some(Unknown), Some(DiameterOk), Some(<<CadBadVelocity, CadOk>>)),
    Asteroid(Some(Name1), Some(DiameterNull), None),
    Asteroid(None, Some(DiameterOk), Some(<<CadOk>>)) }

\* Dates of the window startDate..endDate, one bucket each
NumDates == 2

Buckets == UNION {[1..n -> FeedRecords] : n \in 0..MaxRecords}
Feeds == {f \in [1..NumDates -> Buckets] : Len(f[1]) + Len(f[2]) <= MaxRecords}

El(n, v) == [name |-> Some(n), value |-> Some(Text(v))]
CompleteElements ==
  << El(<<"a">>, <<"1", ".", "5">>), El(<<"e">>, <<"0", ".", "3">>),
     El(<<"i">>, <<"3", "0">>), El(<<"o", "m">>, <<"4", "5">>),
     El(<<"w">>, <<"2", "0", "0">>), El(<<"m", "a">>, <<"1", "0">>) >>
WithValue(list, k, v) == [j \in 1..Len(list) |-> IF j = k THEN [list[j] EXCEPT !.value = v] ELSE list[j]]
Without(list, k) == [j \in 1..(Len(list) - 1) |-> IF j < k THEN list[j] ELSE list[j + 1]]

Json(elems) == [kind |-> "json", elements |-> elems]
\* What one small-body request can come back with
SbdbResponses ==
  { [kind |-> "raise", elements |-> None],
    [kind |-> "not_json", elements |-> None],
    Json(None),
    Json(Some(CompleteElements)),
    Json(Some(Without(CompleteElements, 2))),
    Json(Some(WithValue(CompleteElements, 2, None))),
    Json(Some(WithValue(CompleteElements, 3, Some(Text(<<>>))))),
    Json(Some(WithValue(CompleteElements, 4, Some(Text(NullLiteral))))),
    Json(Some(WithValue(CompleteElements, 5, Some(JsonNull)))),
    Json(Some(WithValue(CompleteElements, 1, Some(Text(<<"x">>))))) }

\* ------------------------------------------------------------- state
VARIABLES
  pc,                   \* "fetch", "request", "try", "write", "done", "crashed"
  response,             \* line 39: how the feed request came back
  astroids,             \* line 44: the feed, a sequence of date buckets
  pos,                  \* <<bucket, index>> of the record the loops are at
  sbdb_response,        \* line 57
  asteroid_orbits,      \* line 49
  asteroid_properties,  \* line 50
  requests,             \* the requests issued so far, in order
  stdout,               \* the lines printed so far
  orbit_file,           \* asteroid_orbit_coords.json as this run wrote it
  properties_file,      \* asteroid_properties.json as this run wrote it
  kname, kkey, kpc,     \* lookup-key specification
  tel, tpath, tpc       \* transform specification

vars == <<pc, response, astroids, pos, sbdb_response, asteroid_orbits, asteroid_properties,
          requests, stdout, orbit_file, properties_file, kname, kkey, kpc, tel, tpath, tpc>>
pipeline == <<pc, response, astroids, pos, sbdb_response, asteroid_orbits, asteroid_properties,
              requests, stdout, orbit_file, properties_file>>
side == <<kname, kkey, kpc, tel, tpath, tpc>>

EmptyMap == [n \in {} |-> 0]
NoResponse == [kind |-> "none", elements |-> None]
Put(m, k, v) == [n \in DOMAIN m \cup {k} |-> IF n = k THEN v ELSE m[n]]
\* dict.get(key, default) on an optional field
Get(opt, default) == IF opt = None THEN default ELSE opt[1]

SideInit ==
  /\ kname = None /\ kkey = <<>> /\ kpc = "off"
  /\ tel = [a |-> 0, e |-> 0, i |-> 0, om |-> 0, w |-> 0] /\ tpath = <<>> /\ tpc = "off"
PipelineOff ==
  /\ pc = "off" /\ response = "none" /\ astroids = <<>> /\ pos = <<1, 1>> /\ sbdb_response = NoResponse
  /\ asteroid_orbits = EmptyMap /\ asteroid_properties = EmptyMap
  /\ requests = <<>> /\ stdout = <<>> /\ orbit_file = None /\ properties_file = None

Init ==
  /\ pc = "fetch" /\ response = "none" /\ astroids = <<>> /\ pos = <<1, 1>> /\ sbdb_response = NoResponse
  /\ asteroid_orbits = EmptyMap /\ asteroid_properties = EmptyMap
  /\ requests = <<>> /\ stdout = <<>> /\ orbit_file = None /\ properties_file = None
  /\ SideInit

RECURSIVE Seek(_, _, _)
\* the record the nested for loops of lines 51-52 reach from <<b, j>>
Seek(f, b, j) ==
  IF b > Len(f) THEN <<b, 1>>
  ELSE IF j <= Len(f[b]) THEN <<b, j>>
  ELSE Seek(f, b + 1, 1)
AtEnd(f, p) == p[1] > Len(f)
asteroid == astroids[pos[1]][pos[2]]
\* the loops move to the next record, or fall through to the writers
Advance ==
  LET nxt == Seek(astroids, pos[1], pos[2] + 1)
  IN /\ pos' = nxt
     /\ pc' = IF AtEnd(astroids, nxt) THEN "write" ELSE "request"

FeedRequest == [to |-> "feed", sstr |-> <<>>, at |-> <<0, 0>>]
SbdbRequest(key, p) == [to |-> "sbdb", sstr |-> key, at |-> p]
Line(msg, nameOpt) == [msg |-> msg, name |-> Get(nameOpt, Unknown)]

\* How the feed request can fail: requests.get raises (line 39), the body is not
\* ASCII or not JSON (line 43), the JSON has no 'near_earth_objects' (line 44)
FeedFailures == {"transport_error", "decode_error", "key_error"}

\* a fetch whose failure is swallowed and followed by the writers
FetchFeed_swallowed ==
  /\ pc = "fetch"
  /\ requests' = Append(requests, FeedRequest)
  /\ \/ /\ response' \in FeedFailures
        /\ pc' = "write"
        /\ UNCHANGED <<astroids, pos>>
     \/ \E f \in Feeds :
          /\ response' = "ok"
          /\ astroids' = f
          /\ pos' = Seek(f, 1, 1)
          /\ pc' = IF AtEnd(f, Seek(f, 1, 1)) THEN "write" ELSE "request"
  /\ UNCHANGED <<sbdb_response, asteroid_orbits, asteroid_properties, stdout,
                 orbit_file, properties_file, side>>

\* lines 39-44: the feed request; nothing catches its failure
FetchFeed ==
  /\ pc = "fetch"
  /\ requests' = Append(requests, FeedRequest)
  /\ \/ /\ response' \in FeedFailures
        /\ pc' = "crashed"
        /\ UNCHANGED <<astroids, pos>>
     \/ \E f \in Feeds :
          /\ response' = "ok"
          /\ astroids' = f
          /\ pos' = Seek(f, 1, 1)
          /\ pc' = IF AtEnd(f, Seek(f, 1, 1)) THEN "write" ELSE "request"
  /\ UNCHANGED <<sbdb_response, asteroid_orbits, asteroid_properties, stdout,
                 orbit_file, properties_file, side>>

\* lines 53-57: the small-body request of the current record, before the try
RequestSbdb ==
  /\ pc = "request"
  /\ stdout' = stdout \o <<Line("Asteroid", asteroid.name), Line("Fetching", asteroid.name)>>
  /\ requests' = Append(requests, SbdbRequest(sbdb_name(asteroid.name), pos))
  /\ \E r \in SbdbResponses :
       IF r.kind = "raise"
       THEN pc' = "crashed" /\ UNCHANGED sbdb_response
       ELSE pc' = "try" /\ sbdb_response' = r
  /\ UNCHANGED <<response, astroids, pos, asteroid_orbits, asteroid_properties,
                 orbit_file, properties_file, side>>

\* line 59: sbdb_response.json() raises on a body that is no JSON
json_raises(r) == r.kind = "not_json"
\* line 60: sbdb_json.get('orbit', {}).get('elements', [])
elements_list_of(r) == Get(r.elements, <<>>)
\* line 61: the entries with a name and a value, as a mapping (a later entry wins)
elements_of(list) ==
  LET ok == {j \in 1..Len(list) : list[j].name # None /\ list[j].value # None}
      last(k) == CHOOSE j \in ok : list[j].name[1] = k
                                   /\ \A h \in ok : list[h].name[1] = k => h <= j
  IN [k \in {list[j].name[1] : j \in ok} |-> list[last(k)].value[1]]

required_keys == {<<"a">>, <<"e">>, <<"i">>, <<"o", "m">>, <<"w">>, <<"m", "a">>}

\* line 64: all(k in elements and elements[k] not in (None, '', 'null') ...)
has_required(elements) ==
  \A k \in required_keys :
     k \in DOMAIN elements /\ elements[k] \notin {JsonNull, Text(<<>>), Text(NullLiteral)}

\* lines 67-72: some float() raises ValueError
float_raises(elements) == \E k \in required_keys : ~FloatOk(elements[k].s)
\* lines 67-71 and 81-85: the values the sampling loop reads
parsed(elements) ==
  [a |-> FloatVal(elements[<<"a">>].s), e |-> FloatVal(elements[<<"e">>].s),
   i |-> FloatVal(elements[<<"i">>].s), om |-> FloatVal(elements[<<"o", "m">>].s),
   w |-> FloatVal(elements[<<"w">>].s)]

\* lines 108-112: size; a null estimated_diameter makes the 'in' test raise
size_raises(ast) ==
  ast.estimated_diameter # None /\ ast.estimated_diameter[1].ty = "null"
size_of(ast) ==
  IF ast.estimated_diameter # None /\ ast.estimated_diameter[1].kilometers # None
  THEN ast.estimated_diameter[1].kilometers[1].estimated_diameter_max
  ELSE None

\* lines 114-118: speed, from the first close approach
has_velocity(ast) ==
  /\ ast.close_approach_data # None
  /\ Len(ast.close_approach_data[1]) > 0
  /\ ast.close_approach_data[1][1].relative_velocity # None
  /\ ast.close_approach_data[1][1].relative_velocity[1].kilometers_per_second # None
velocity_text(ast) == ast.close_approach_data[1][1].relative_velocity[1].kilometers_per_second[1]
speed_raises(ast) == has_velocity(ast) /\ ~FloatOk(velocity_text(ast))
speed_of(ast) == IF has_velocity(ast) THEN Some(FloatVal(velocity_text(ast))) ELSE None

\* lines 106-118
extraction_raises(ast) == size_raises(ast) \/ speed_raises(ast)
\* lines 119-122
properties_of(ast) == [size_km |-> size_of(ast), speed_km_s |-> speed_of(ast)]

\* line 104
store_orbit(orbits, ast, coords) == Put(orbits, Get(ast.name, Unknown), coords)
\* line 119
store_properties(props, ast) == Put(props, Get(ast.name, Unknown), properties_of(ast))

\* line 75: asteroid['name'] never raising, as asteroid.get('name', 'unknown') would
name_raises_never(ast) == FALSE
\* line 75: asteroid['name'] raises KeyError on a record without a name
name_raises(ast) == ast.name = None

\* lines 65-66 with break in the place of continue
Skip_break ==
  /\ stdout' = Append(stdout, Line("Skipping", asteroid.name))
  /\ UNCHANGED <<asteroid_orbits, asteroid_properties>>
  /\ pos' = Seek(astroids, pos[1], pos[2] + 1)
  /\ pc' = "write"

\* lines 65-66: print and continue
Skip ==
  /\ stdout' = Append(stdout, Line("Skipping", asteroid.name))
  /\ UNCHANGED <<asteroid_orbits, asteroid_properties>>
  /\ Advance

\* line 124: the except handler prints and the loop goes on
Caught == stdout' = Append(stdout, Line("CouldNot", asteroid.name))

\* lines 58-124: the try block of the current record and its except handler
ProcessResponse ==
  /\ pc = "try"
  /\ LET elements == elements_of(elements_list_of(sbdb_response))
     IN \/ /\ json_raises(sbdb_response)
           /\ Caught
           /\ UNCHANGED <<asteroid_orbits, asteroid_properties>>
           /\ Advance
        \/ /\ ~json_raises(sbdb_response)
           /\ ~has_required(elements)
           /\ Skip
        \/ /\ ~json_raises(sbdb_response)
           /\ has_required(elements)
           /\ float_raises(elements)
           /\ Caught
           /\ UNCHANGED <<asteroid_orbits, asteroid_properties>>
           /\ Advance
        \/ \* line 74: Orbit.from_classical rejects the elements
           /\ ~json_raises(sbdb_response)
           /\ has_required(elements)
           /\ ~float_raises(elements)
           /\ Caught
           /\ UNCHANGED <<asteroid_orbits, asteroid_properties>>
           /\ Advance
        \/ \* line 75: asteroid['name'] raises KeyError
           /\ ~json_raises(sbdb_response)
           /\ has_required(elements)
           /\ ~float_raises(elements)
           /\ name_raises(asteroid)
           /\ Caught
           /\ UNCHANGED <<asteroid_orbits, asteroid_properties>>
           /\ Advance
        \/ /\ ~json_raises(sbdb_response)
           /\ has_required(elements)
           /\ ~float_raises(elements)
           /\ ~name_raises(asteroid)
           /\ asteroid_orbits' = store_orbit(asteroid_orbits, asteroid, orbit_coords(parsed(elements)))
           /\ IF extraction_raises(asteroid)
              THEN /\ stdout' = stdout \o <<Line("OrbitCreated", asteroid.name),
                                            Line("CouldNot", asteroid.name)>>
                   /\ UNCHANGED asteroid_properties
              ELSE /\ stdout' = Append(stdout, Line("OrbitCreated", asteroid.name))
                   /\ asteroid_properties' = store_properties(asteroid_properties, asteroid)
           /\ Advance
  /\ UNCHANGED <<response, astroids, sbdb_response, requests, orbit_file, properties_file, side>>

\* lines 126-130: both artifacts are written
WriteArtifacts ==
  /\ pc = "write"
  /\ orbit_file' = Some(asteroid_orbits)
  /\ properties_file' = Some(asteroid_properties)
  /\ pc' = "done"
  /\ UNCHANGED <<response, astroids, pos, sbdb_response, asteroid_orbits,
                 asteroid_properties, requests, stdout, side>>

Next == FetchFeed \/ RequestSbdb \/ ProcessResponse \/ WriteArtifacts
Spec == Init /\ [][Next]_vars

\* ------------------------------------------------------------- the lookup key alone
NameChars == {Space, Tab, LParen, RParen, "J"}
NamesUpTo(n) == UNION {[1..m -> NameChars] : m \in 0..n}

InitKey ==
  /\ PipelineOff
  /\ kname \in {None} \cup {Some(n) : n \in NamesUpTo(MaxNameLen)}
  /\ kkey = <<>> /\ kpc = "name"
  /\ tel = [a |-> 0, e |-> 0, i |-> 0, om |-> 0, w |-> 0] /\ tpath = <<>> /\ tpc = "off"

\* line 54 on the name drawn
DeriveKey ==
  /\ kpc = "name"
  /\ kkey' = sbdb_name(kname)
  /\ kpc' = "key"
  /\ UNCHANGED <<pipeline, kname, tel, tpath, tpc>>

NextKey == DeriveKey
SpecKey == InitKey /\ [][NextKey]_vars

\* ------------------------------------------------------------- the transform alone
\* float() values of elements with 0 <= e < 1
TransformInputs ==
  [a : {1000, 1500}, e : {0, 300, 900}, i : {0, 30000, 90000},
   om : {0, 45000, 123400, 270000}, w : {0, 60000, 200000}]

InitTransform ==
  /\ PipelineOff
  /\ kname = None /\ kkey = <<>> /\ kpc = "off"
  /\ tel \in TransformInputs /\ tpath = <<>> /\ tpc = "elements"

\* lines 78-100 on the elements drawn
SamplePath ==
  /\ tpc = "elements"
  /\ tpath' = orbit_coords(tel)
  /\ tpc' = "path"
  /\ UNCHANGED <<pipeline, kname, kkey, kpc, tel>>

NextTransform == SamplePath
SpecTransform == InitTransform /\ [][NextTransform]_vars

\* ------------------------------------------------------------- properties
Keys(fileOpt) == IF fileOpt = None THEN {} ELSE DOMAIN fileOpt[1]
Logged(msg, n) == \E k \in 1..Len(stdout) : stdout[k] = [msg |-> msg, name |-> n]
FeedPositions == {p \in (1..NumDates) \X (1..(MaxRecords + 1)) :
                    p[1] <= Len(astroids) /\ p[2] <= Len(astroids[p[1]])}
FeedNames == {astroids[p[1]][p[2]].name[1] : p \in {q \in FeedPositions : astroids[q[1]][q[2]].name # None}}
RECURSIVE RequestsFrom(_, _)
\* one small-body request per record from position p on, in the order of the loops
RequestsFrom(f, p) ==
  IF AtEnd(f, p) THEN <<>>
  ELSE <<SbdbRequest(sbdb_name(f[p[1]][p[2]].name), p)>> \o RequestsFrom(f, Seek(f, p[1], p[2] + 1))

\* C1: every name that is a key of the orbit map is a key of the properties map, in
\* memory at every point of the run and in the two artifacts once written.
C1_OrbitKeysHaveProperties ==
  /\ DOMAIN asteroid_orbits \subseteq DOMAIN asteroid_properties
  /\ Keys(orbit_file) \subseteq Keys(properties_file)

\* C2: once the feed is in, no exception of a single object ends the run: the run
\* never terminates on an uncaught error after a successful feed fetch.
C2_PerObjectErrorsAreCaught == response = "ok" => pc # "crashed"

\* The lookups that lack one of a, e, i, om, w, ma: no orbit at all, no e entry, an e
\* entry without a value, i = '', om = 'null', w = null
IncompleteResponses ==
  { Json(None),
    Json(Some(Without(CompleteElements, 2))),
    Json(Some(WithValue(CompleteElements, 2, None))),
    Json(Some(WithValue(CompleteElements, 3, Some(Text(<<>>))))),
    Json(Some(WithValue(CompleteElements, 4, Some(Text(NullLiteral))))),
    Json(Some(WithValue(CompleteElements, 5, Some(JsonNull)))) }

C4_ExtractionNeverRaises ==
  \A k \in 1..Len(stdout) :
     stdout[k].msg = "OrbitCreated" =>
        /\ stdout[k].name \in DOMAIN asteroid_properties
        /\ (k < Len(stdout) => stdout[k + 1].msg # "CouldNot")

\* C5: a failed feed fetch ends the run: the process has terminated on the error, the
\* feed request is the only request made, and neither artifact is written.
C5_FeedFailureIsFatal ==
  response \in FeedFailures =>
     /\ pc = "crashed"
     /\ ~ENABLED Next
     /\ requests = <<FeedRequest>>
     /\ orbit_file = None /\ properties_file = None
C5_Witness == response = "transport_error" /\ pc = "crashed"

Strip(name, chars) == SelectSeq(name, LAMBDA c : c \notin chars)
KeyIs(name, chars) ==
  LET kept == Strip(name, chars)
  IN /\ Len(kkey) = (IF Len(kept) > 6 THEN Len(kept) - 6 ELSE 0)
     /\ \A j \in 1..Len(kkey) : kkey[j] = kept[j + 6]

\* C6 as stated: the key is the name without any whitespace character and without
\* '(' and ')', less its first 6 characters.
C6_KeyStripsWhitespace ==
  kpc = "key" => KeyIs(Get(kname, <<>>), Whitespace \cup {LParen, RParen})
\* C6 amended: the key is the name without its space characters (U+0020 only) and
\* without '(' and ')', less its first 6 characters; other whitespace stays.
C6_KeyStripsSpaces ==
  kpc = "key" => KeyIs(Get(kname, <<>>), {Space, LParen, RParen})
C6_Witness ==
  /\ kpc = "key" /\ kname # None
  /\ Len(kname[1]) > 6
  /\ kkey = <<Tab>>

CompleteResponses == {Json(Some(CompleteElements))}
\* C7: every value of the orbit map, and of the orbit artifact, is a sequence of exactly
\* 200 triples whose first sample is taken at true anomaly 0 and whose last at 2*pi, and
\* the two points coincide.
C7_OrbitPathShape ==
  \A m \in {Some(asteroid_orbits), orbit_file} \ {None} : \A n \in DOMAIN m[1] :
     LET v == m[1][n]
     IN /\ Len(v) = 200
        /\ \A k \in 1..Len(v) : Len(v[k]) = 3
        /\ \E r \in CompleteResponses :
              LET el == parsed(elements_of(elements_list_of(r)))
              IN v[1] = point(el, 0) /\ v[200] = point(el, Turn)
        /\ v[1] = v[200]
C7_Witness ==
  /\ pc = "done"
  /\ Name1 \in Keys(orbit_file)
  /\ orbit_file[1][Name1][50] # orbit_file[1][Name1][1]

\* C8: for inclination 0 every point of the path has z = 0, whatever the node, the
\* argument of periapsis and the eccentricity below 1.
C8_ZeroInclinationIsPlanar ==
  (tpc = "path" /\ tel.i = 0) => \A k \in 1..Len(tpath) : tpath[k][3] = 0
C8_Witness ==
  /\ tpc = "path" /\ tel.i = 0 /\ tel.om # 0 /\ tel.w # 0 /\ tel.e # 0
  /\ Len(tpath) = 200
  /\ \E k \in 1..Len(tpath) : tpath[k][1] # 0 /\ tpath[k][2] # 0

\* C9: a run that has ended made one feed request and then exactly one small-body
\* request for every record of the feed, in the order of the feed.
C9_OneRequestPerRecord ==
  (response = "ok" /\ pc \in {"done", "crashed"}) =>
     requests = <<FeedRequest>> \o RequestsFrom(astroids, Seek(astroids, 1, 1))

\* C10: processing a record without a name changes neither map, and every key of the
\* two maps and of the two artifacts is the name of a record of the feed.
C10_KeysAreFeedNames ==
  /\ [][(pc = "try" /\ asteroid.name = None) =>
          asteroid_orbits' = asteroid_orbits /\ asteroid_properties' = asteroid_properties]_vars
  /\ [](/\ DOMAIN asteroid_orbits \cup DOMAIN asteroid_properties \subseteq FeedNames
        /\ Keys(orbit_file) \cup Keys(properties_file) \subseteq FeedNames)
C10_Witness ==
  /\ pc = "done"
  /\ \E p \in FeedPositions : astroids[p[1]][p[2]].name = None
                              /\ Seek(astroids, p[1], p[2] + 1)[1] > Len(astroids)
  /\ sbdb_response \in CompleteResponses
  /\ Unknown \notin FeedNames
  /\ Keys(orbit_file) # {}
====
